---- MODULE Spec2Model ----
(* Model of src/src/app.py: the Elastic Beanstalk platform-update notifier.   *)
(* Strings are sequences of one-character strings, so that split() and        *)
(* version.parse() are computed rather than assumed.  Python's None is the    *)
(* one-element sequence <<"None">>, which no string of the model equals.      *)
(* One invocation of lambda_handler is a run of steps, one per external call; *)
(* the process stays warm between invocations, so the module-level cache      *)
(* outlives each of them.  A failure of an external call is the exception the *)
(* code catches for it (ClientError, SlackApiError).                          *)
EXTENDS Integers, Sequences, FiniteSets, TLC

VARIABLES
    latest_platform_version_cache, \* app.py:15, the module-level dict
    pc,                            \* position of lambda_handler
    outcome,                       \* how the last invocation ended
    applications,                  \* app.py:83, the ApplicationName of each application
    appIdx,                        \* position of the loop of app.py:88
    nEnvironments,                 \* app.py:95, len(environments['Environments'])
    envIdx,                        \* position of the loop of app.py:103
    environment,                   \* app.py:103, the loop variable
    platform_name,                 \* app.py:108
    current_platform_version,      \* app.py:109
    latest_platform_version,       \* app.py:113
    slack_token,                   \* app.py:122
    called,                        \* external operations called in this invocation
    queries,                       \* list_platform_versions calls per name, this invocation
    anomalies,                     \* failures and empty answers met in this invocation
    unlisted,                      \* applications not yet asked for their environments
    unscanned,                     \* environments listed and not yet looked up
    owed,                          \* environments found stale minus chat posts issued
    postsThisEnv,                  \* chat posts issued for the current environment
    inventory,                     \* the environments the account may hold
    stored,                        \* per cached name, what its query returned first
    ambiguous                      \* the lookup just made cached one of several results

vars == <<latest_platform_version_cache, pc, outcome, applications, appIdx,
          nEnvironments, envIdx, environment, platform_name,
          current_platform_version, latest_platform_version, slack_token,
          called, queries, anomalies, unlisted, unscanned, owed, postsThisEnv,
          inventory, stored, ambiguous>>

-----------------------------------------------------------------------------
(* Bounds of the model *)

MaxApps == 2
MaxEnvs == 2

-----------------------------------------------------------------------------
(* Values *)

None == <<"None">>

P1 == <<"P">>
P2 == <<"Q">>
PlatformNames == {P1, P2}

V2_9 == <<"2", ".", "9">>
V2_11 == <<"2", ".", "1", "1">>
V2_9_0 == <<"2", ".", "9", ".", "0">>
V2_x == <<"2", ".", "x">>
CurrentVersions == {V2_9_0, V2_11}
LatestVersions == {V2_9, V2_11}

AppNames == << <<"A">>, <<"B">>, <<"C">>, <<"D">> >>

Token == <<"x", "o", "x", "b">>

\* arn:aws:elasticbeanstalk:<region>::platform/<name>/<version>, each of the
\* first four segments shortened to one character
MakeArn(name, ver) ==
    <<"a", ":", "w", ":", "e", ":", "r", ":", ":", "p", "/">> \o name \o <<"/">> \o ver

\* the environments the inventory may hold; EnvironmentName and EnvironmentId
\* only reach the log and the message text
Environments == { [PlatformArn |-> MakeArn(n, v)] : n \in PlatformNames, v \in CurrentVersions }

\* environments whose platform version is no version
MalformedEnvironments == { [PlatformArn |-> MakeArn(n, V2_x)] : n \in PlatformNames }

RECURSIVE SeqsUpTo(_, _)
SeqsUpTo(S, n) ==
    IF n = 0 THEN { <<>> }
    ELSE LET shorter == SeqsUpTo(S, n - 1)
         IN shorter \cup { Append(s, x) : s \in { t \in shorter : Len(t) = n - 1 }, x \in S }

-----------------------------------------------------------------------------
(* str.split(sep) *)

\* one pass over s: cur is the piece being read, acc the pieces read
RECURSIVE SplitFrom(_, _, _, _, _)
SplitFrom(s, sep, i, cur, acc) ==
    IF i > Len(s) THEN Append(acc, cur)
    ELSE IF s[i] = sep THEN SplitFrom(s, sep, i + 1, <<>>, Append(acc, cur))
    ELSE SplitFrom(s, sep, i + 1, Append(cur, s[i]), acc)

Split(s, sep) == SplitFrom(s, sep, 1, <<>>, <<>>)

\* Python indexes from 0
get_platform_version(platform_arn) == Split(Split(platform_arn, ":")[6], "/")[3]

get_platform_name(platform_arn) == Split(Split(platform_arn, ":")[6], "/")[2]

-----------------------------------------------------------------------------
(* packaging.version: parse and compare the release segment.  The versions    *)
(* of the model are digits and dots, with no epoch, pre-, post- or dev-tag,   *)
(* so the key of a Version is its release without trailing zeros.             *)

DigitVal(c) ==
    CASE c = "0" -> 0 [] c = "1" -> 1 [] c = "2" -> 2 [] c = "3" -> 3
      [] c = "4" -> 4 [] c = "5" -> 5 [] c = "6" -> 6 [] c = "7" -> 7
      [] c = "8" -> 8 [] c = "9" -> 9

RECURSIVE ToInt(_)
ToInt(ds) ==
    IF Len(ds) = 0 THEN 0
    ELSE 10 * ToInt(SubSeq(ds, 1, Len(ds) - 1)) + DigitVal(ds[Len(ds)])

\* the release of Version(s): the dot-separated components as integers
Release(s) == LET parts == Split(s, ".")
              IN [i \in 1..Len(parts) |-> ToInt(parts[i])]

\* Version._key drops the trailing zeros of the release
RECURSIVE StripZeros(_)
StripZeros(r) ==
    IF Len(r) > 0 /\ r[Len(r)] = 0 THEN StripZeros(SubSeq(r, 1, Len(r) - 1)) ELSE r

VersionKey(s) == StripZeros(Release(s))

\* the strings Version() accepts, among those of digits, dots and letters:
\* components of digits, none empty
WellFormed(s) ==
    \A part \in { Split(s, ".")[i] : i \in 1..Len(Split(s, ".")) } :
        /\ Len(part) > 0
        /\ \A i \in 1..Len(part) :
              part[i] \in {"0", "1", "2", "3", "4", "5", "6", "7", "8", "9"}

\* what version.parse makes of the two strings: a Version of each; or, when one
\* is no version, InvalidVersion raised (packaging 22 and later) or a
\* LegacyVersion returned (earlier releases); the release is not pinned
ParseOutcomes(latest, current) ==
    IF WellFormed(latest) /\ WellFormed(current)
    THEN {"Version"}
    ELSE {"InvalidVersion", "LegacyVersion"}

\* Python's ordering of tuples
RECURSIVE TupleLess(_, _)
TupleLess(a, b) ==
    IF Len(b) = 0 THEN FALSE
    ELSE IF Len(a) = 0 THEN TRUE
    ELSE IF a[1] # b[1] THEN a[1] < b[1]
    ELSE TupleLess(Tail(a), Tail(b))

-----------------------------------------------------------------------------
(* get_latest_platform_version, app.py:38-69 *)

\* answers of eb_client.list_platform_versions: a ClientError, or a
\* PlatformSummaryList holding the PlatformVersion of each summary
ListPlatformVersionsResponses ==
    { [error |-> TRUE, PlatformSummaryList |-> <<>>] }
      \cup { [error |-> FALSE, PlatformSummaryList |-> l] : l \in SeqsUpTo(LatestVersions, 2) }

\* the lookup without its cache test
CacheHit_Never(cache, name) == FALSE

\* platform_name in latest_platform_version_cache
CacheHit(cache, name) == name \in DOMAIN cache

\* the store rebinding the dict: latest_platform_version_cache = {platform_name: latest_version}
CacheStore_Rebind(cache, name, ver) == [n \in {name} |-> ver]

\* latest_platform_version_cache[platform_name] = latest_version
CacheStore(cache, name, ver) ==
    [n \in (DOMAIN cache) \cup {name} |-> IF n = name THEN ver ELSE cache[n]]

\* the store placed after the try block: a failed query caches None
get_latest_platform_version_StoresAnyway(cache, name, resp) ==
    IF name \in DOMAIN cache
    THEN [ret |-> cache[name], cache |-> cache, queried |-> FALSE, raised |-> None]
    ELSE IF resp.error
    THEN [ret |-> None, cache |-> [n \in (DOMAIN cache) \cup {name} |->
                                      IF n = name THEN None ELSE cache[n]],
          queried |-> TRUE, raised |-> None]
    ELSE IF Len(resp.PlatformSummaryList) = 0
    THEN [ret |-> None, cache |-> cache, queried |-> TRUE, raised |-> <<"IndexError">>]
    ELSE [ret |-> resp.PlatformSummaryList[1],
          cache |-> [n \in (DOMAIN cache) \cup {name} |->
                       IF n = name THEN resp.PlatformSummaryList[1] ELSE cache[n]],
          queried |-> TRUE, raised |-> None]

\* ret: the value returned; raised: the exception that leaves the function
\* (None when it returns); queried: whether list_platform_versions was called
get_latest_platform_version(cache, name, resp) ==
    IF CacheHit(cache, name)
    THEN [ret |-> cache[name], cache |-> cache, queried |-> FALSE, raised |-> None]
    ELSE IF resp.error
    THEN [ret |-> None, cache |-> cache, queried |-> TRUE, raised |-> None]
    ELSE IF Len(resp.PlatformSummaryList) = 0
    THEN [ret |-> None, cache |-> cache, queried |-> TRUE, raised |-> <<"IndexError">>]
    ELSE [ret |-> resp.PlatformSummaryList[1],
          cache |-> CacheStore(cache, name, resp.PlatformSummaryList[1]),
          queried |-> TRUE, raised |-> None]

\* the order of str: "." sorts before every digit
CharCode(c) == IF c = "." THEN 0 ELSE DigitVal(c) + 1

\* the comparison without version.parse: latest_platform_version > current_platform_version
IsNewer_AsStrings(latest, current) ==
    TupleLess([i \in 1..Len(current) |-> CharCode(current[i])],
              [i \in 1..Len(latest) |-> CharCode(latest[i])])

\* the comparison with >= for >
IsNewer_OrEqual(latest, current) == ~TupleLess(VersionKey(latest), VersionKey(current))

\* version.parse(latest_platform_version) > version.parse(current_platform_version)
IsNewer(latest, current) == TupleLess(VersionKey(current), VersionKey(latest))

\* the comparison of line 116 when version.parse returned a LegacyVersion: it
\* sorts before every Version (the latest versions of the model are well formed)
IsNewerLegacy(latest, current) == WellFormed(latest) /\ ~WellFormed(current)

-----------------------------------------------------------------------------
(* lambda_handler, app.py:79-185 *)

\* the invocation ends: its locals are gone, the module-level cache stays
Finish(how) ==
    /\ pc' = "idle"
    /\ outcome' = how
    /\ applications' = <<>>
    /\ appIdx' = 0
    /\ nEnvironments' = 0
    /\ envIdx' = 0
    /\ environment' = None
    /\ platform_name' = None
    /\ current_platform_version' = None
    /\ slack_token' = None

\* app.py:88: the loop reaches application i
EnterApplication(i) ==
    /\ pc' = "describe_environments"
    /\ appIdx' = i
    /\ nEnvironments' = 0
    /\ envIdx' = 0
    /\ environment' = None
    /\ platform_name' = None
    /\ current_platform_version' = None
    /\ slack_token' = None

\* app.py:88: the next application, or the end of the handler
NextApplication ==
    IF appIdx < Len(applications)
    THEN EnterApplication(appIdx + 1) /\ UNCHANGED <<applications, outcome>>
    ELSE Finish("returned")

\* app.py:103: the loop variable takes environment i of the n listed.  The
\* response is fixed when describe_environments returns, but nothing reads an
\* element before the loop reaches it, so the element is drawn here.
EnterEnvironment(i, n) ==
    /\ pc' = "scan"
    /\ nEnvironments' = n
    /\ envIdx' = i
    /\ environment' \in inventory
    /\ platform_name' = None
    /\ current_platform_version' = None
    /\ slack_token' = None
    /\ UNCHANGED <<outcome, applications, appIdx>>

\* app.py:103: the next environment, or the next application
NextEnvironment ==
    IF envIdx < nEnvironments
    THEN EnterEnvironment(envIdx + 1, nEnvironments)
    ELSE NextApplication

\* the handler without the test of line 87: None['Applications'] raises
DescribeApplicationsFailed_Unguarded == Finish("TypeError")

\* app.py:84-87: the ClientError is printed, applications stays None
DescribeApplicationsFailed == Finish("returned")

\* app.py:79-88: a new invocation, up to the first application
DescribeApplications ==
    /\ pc = "idle"
    /\ called' = {"describe_applications"}
    /\ queries' = [n \in PlatformNames |-> 0]
    /\ unscanned' = 0
    /\ owed' = 0
    /\ postsThisEnv' = 0
    /\ latest_platform_version' = None
    /\ ambiguous' = FALSE
    /\ UNCHANGED <<latest_platform_version_cache, inventory, stored>>
    /\ \/ /\ anomalies' = {"describe_applications"}
          /\ unlisted' = 0
          /\ DescribeApplicationsFailed
       \/ \E n \in 0..MaxApps :
            /\ anomalies' = {}
            /\ unlisted' = n
            /\ IF n = 0
               THEN Finish("returned")
               ELSE /\ EnterApplication(1)
                    /\ applications' = SubSeq(AppNames, 1, n)
                    /\ outcome' = "running"

\* the except clause of line 99 ending the handler with a return
DescribeEnvironmentsFailed_Return == Finish("returned")

\* app.py:99-102: the ClientError is printed, environments stays None
DescribeEnvironmentsFailed == NextApplication

\* app.py:89-103: the environments of the current application
DescribeEnvironments ==
    /\ pc = "describe_environments"
    /\ called' = called \cup {"describe_environments"}
    /\ unlisted' = unlisted - 1
    /\ ambiguous' = FALSE
    /\ UNCHANGED <<inventory, stored>>
    /\ UNCHANGED <<latest_platform_version_cache, latest_platform_version, queries, owed,
                   postsThisEnv>>
    /\ \/ /\ anomalies' = anomalies \cup {"describe_environments"}
          /\ UNCHANGED unscanned
          /\ DescribeEnvironmentsFailed
       \/ \E n \in 0..MaxEnvs :
            /\ UNCHANGED anomalies
            /\ unscanned' = unscanned + n
            /\ IF n = 0 THEN NextApplication ELSE EnterEnvironment(1, n)

\* app.py:104-117 and 184-185: the current environment, up to the comparison
ScanEnvironment ==
    /\ pc = "scan"
    /\ \E name \in {get_platform_name(environment.PlatformArn)},
          current \in {get_platform_version(environment.PlatformArn)},
          resp \in ListPlatformVersionsResponses :
         \E got \in {get_latest_platform_version(latest_platform_version_cache, name, resp)} :
            /\ latest_platform_version_cache' = got.cache
            /\ latest_platform_version' = got.ret
            /\ called' = called \cup (IF got.queried THEN {"list_platform_versions"} ELSE {})
            /\ queries' = [queries EXCEPT ![name] = IF got.queried THEN @ + 1 ELSE @]
            /\ anomalies' = anomalies
                   \cup (IF got.queried /\ resp.error THEN {"lookup_error"} ELSE {})
                   \cup (IF got.queried /\ ~resp.error /\ Len(resp.PlatformSummaryList) = 0
                         THEN {"lookup_empty"} ELSE {})
                   \cup (IF got.ret # None /\ ~WellFormed(current)
                         THEN {"bad_version"} ELSE {})
            /\ stored' = IF got.queried /\ ~resp.error /\ Len(resp.PlatformSummaryList) > 0
                         THEN [n \in (DOMAIN stored) \cup {name} |->
                                 IF n = name THEN resp.PlatformSummaryList[1] ELSE stored[n]]
                         ELSE stored
            /\ ambiguous' = (/\ got.queried
                             /\ ~resp.error
                             /\ Len(resp.PlatformSummaryList) > 1
                             /\ name \in DOMAIN got.cache)
            /\ unscanned' = unscanned - 1
            /\ postsThisEnv' = 0
            /\ UNCHANGED <<unlisted, inventory>>
            /\ IF got.raised # None
               THEN \* ['PlatformSummaryList'][0] of an empty list
                    /\ Finish(got.raised[1])
                    /\ UNCHANGED owed
               ELSE IF got.ret = None
               THEN \* version.parse(None)
                    /\ Finish("TypeError")
                    /\ UNCHANGED owed
               ELSE \E parsed \in ParseOutcomes(got.ret, current) :
                    IF parsed = "InvalidVersion"
                    THEN /\ Finish("InvalidVersion")
                         /\ UNCHANGED owed
                    ELSE /\ owed' = IF parsed = "Version"
                                       /\ TupleLess(VersionKey(current), VersionKey(got.ret))
                                    THEN owed + 1 ELSE owed
                         /\ IF (IF parsed = "Version" THEN IsNewer(got.ret, current)
                                                      ELSE IsNewerLegacy(got.ret, current))
                            THEN /\ pc' = "get_slack_token"
                                 /\ platform_name' = name
                                 /\ current_platform_version' = current
                                 /\ UNCHANGED <<outcome, applications, appIdx, nEnvironments,
                                                envIdx, environment, slack_token>>
                            ELSE NextEnvironment

\* the handler without the test of line 125
AfterSlackToken_Unchecked(token) ==
    /\ pc' = "get_aws_account_alias"
    /\ slack_token' = token
    /\ UNCHANGED <<outcome, applications, appIdx, nEnvironments, envIdx, environment,
                   platform_name, current_platform_version>>

\* app.py:125: if slack_token
AfterSlackToken(token) ==
    IF token # None
    THEN /\ pc' = "get_aws_account_alias"
         /\ slack_token' = token
         /\ UNCHANGED <<outcome, applications, appIdx, nEnvironments, envIdx, environment,
                        platform_name, current_platform_version>>
    ELSE NextEnvironment

\* app.py:27-36 and 119-125: the token of the chat service
GetSlackToken ==
    /\ pc = "get_slack_token"
    /\ called' = called \cup {"get_parameter"}
    /\ ambiguous' = FALSE
    /\ UNCHANGED <<inventory, stored>>
    /\ UNCHANGED <<latest_platform_version_cache, latest_platform_version, queries,
                   unlisted, unscanned, owed, postsThisEnv>>
    /\ \/ /\ anomalies' = anomalies \cup {"get_parameter"}
          /\ AfterSlackToken(None)
       \/ /\ UNCHANGED anomalies
          /\ AfterSlackToken(Token)

\* app.py:17-25 and 145: the alias, fetched while the blocks of the message are built
GetAwsAccountAlias ==
    /\ pc = "get_aws_account_alias"
    /\ called' = called \cup {"list_account_aliases"}
    /\ ambiguous' = FALSE
    /\ UNCHANGED <<inventory, stored>>
    /\ UNCHANGED <<latest_platform_version_cache, latest_platform_version, queries,
                   unlisted, unscanned, owed, postsThisEnv>>
    /\ \/ \* ClientError: account_alias stays None, and str + None raises
          /\ anomalies' = anomalies \cup {"alias_error"}
          /\ Finish("TypeError")
       \/ \* no alias: ['AccountAliases'][0] raises
          /\ anomalies' = anomalies \cup {"alias_empty"}
          /\ Finish("IndexError")
       \/ /\ pc' = "chat_postMessage"
          /\ UNCHANGED <<anomalies, outcome, applications, appIdx, nEnvironments, envIdx,
                         environment, platform_name, current_platform_version, slack_token>>

\* the post without the except clause of line 179
SlackApiErrorCaught_Not == Finish("SlackApiError")

\* app.py:179-183: the SlackApiError is printed
SlackApiErrorCaught == NextEnvironment

\* app.py:129-183: the post, accepted or rejected
ChatPostMessage ==
    /\ pc = "chat_postMessage"
    /\ called' = called \cup {"chat_postMessage"}
    /\ postsThisEnv' = postsThisEnv + 1
    /\ owed' = owed - 1
    /\ ambiguous' = FALSE
    /\ UNCHANGED <<inventory, stored>>
    /\ UNCHANGED <<latest_platform_version_cache, latest_platform_version, queries,
                   unlisted, unscanned>>
    /\ \/ /\ UNCHANGED anomalies
          /\ NextEnvironment
       \/ /\ anomalies' = anomalies \cup {"chat_postMessage"}
          /\ SlackApiErrorCaught

\* the process has loaded the module and handled nothing yet
Loaded(envs) ==
    /\ inventory = envs
    /\ stored = <<>>
    /\ ambiguous = FALSE
    /\ latest_platform_version_cache = <<>>
    /\ pc = "idle"
    /\ outcome = "none"
    /\ applications = <<>>
    /\ appIdx = 0
    /\ nEnvironments = 0
    /\ envIdx = 0
    /\ environment = None
    /\ platform_name = None
    /\ current_platform_version = None
    /\ latest_platform_version = None
    /\ slack_token = None
    /\ called = {}
    /\ queries = [n \in PlatformNames |-> 0]
    /\ anomalies = {}
    /\ unlisted = 0
    /\ unscanned = 0
    /\ owed = 0
    /\ postsThisEnv = 0

\* every environment of the account runs a platform version that is a version
Init == Loaded(Environments)

\* some environments of the account report a platform version that is none
InitMalformed == Loaded(Environments \cup MalformedEnvironments)

Next ==
    \/ DescribeApplications
    \/ DescribeEnvironments
    \/ ScanEnvironment
    \/ GetSlackToken
    \/ GetAwsAccountAlias
    \/ ChatPostMessage

Spec == Init /\ [][Next]_vars

SpecMalformed == InitMalformed /\ [][Next]_vars

-----------------------------------------------------------------------------
(* What the claims speak of, stated on the inventory rather than on the       *)
(* handler's locals                                                           *)

\* the platform name and version an environment was listed with
NameOf(env) ==
    CHOOSE n \in PlatformNames : \E v \in CurrentVersions : env.PlatformArn = MakeArn(n, v)

VersionOf(env) ==
    CHOOSE v \in CurrentVersions : \E n \in PlatformNames : env.PlatformArn = MakeArn(n, v)

\* a is strictly greater than b, component by component as numbers
NumericallyGreater(a, b) == TupleLess(VersionKey(b), VersionKey(a))

\* the invocation has not ended with an exception
NoException == outcome \in {"none", "running", "returned"}

\* the handler goes on with the next environment, the next application, or returns
ScanContinues ==
    /\ outcome' \in {"running", "returned"}
    /\ IF envIdx < nEnvironments
       THEN pc' = "scan" /\ envIdx' = envIdx + 1 /\ appIdx' = appIdx
       ELSE IF appIdx < Len(applications)
       THEN pc' = "describe_environments" /\ appIdx' = appIdx + 1
       ELSE pc' = "idle" /\ outcome' = "returned"

\* the invocation is over and every application and environment was visited
ScannedAll == pc = "idle" => (outcome = "returned" /\ unlisted = 0 /\ unscanned = 0)

-----------------------------------------------------------------------------
(* C1: a chat post is issued for an environment only when the latest version  *)
(* reported for its platform is strictly greater than its current version,    *)
(* compared component by component as numbers; never when equal or lower.     *)
C1_PostOnlyWhenNewer ==
    [][postsThisEnv' > postsThisEnv =>
          /\ latest_platform_version # None
          /\ NumericallyGreater(latest_platform_version, VersionOf(environment))]_vars

\* a post went out for an environment on 2.9.0 when 2.11 is the latest
C1_Witness ==
    /\ postsThisEnv = 1
    /\ pc = "idle"
    /\ outcome = "returned"
    /\ latest_platform_version = V2_11

(* C2: once a lookup for a platform name succeeded, a second lookup for that  *)
(* name issues no query and returns the cached value; the first issued        *)
(* exactly one; a cached value is never changed or removed.                   *)
C2_CachedLookup ==
    [][/\ \A n \in DOMAIN latest_platform_version_cache :
             /\ n \in DOMAIN latest_platform_version_cache'
             /\ latest_platform_version_cache'[n] = latest_platform_version_cache[n]
       /\ (pc = "scan" /\ NameOf(environment) \in DOMAIN latest_platform_version_cache) =>
             /\ queries' = queries
             /\ latest_platform_version' = latest_platform_version_cache[NameOf(environment)]
       /\ (pc = "scan" /\ NameOf(environment) \notin DOMAIN latest_platform_version_cache
                       /\ NameOf(environment) \in DOMAIN latest_platform_version_cache') =>
             /\ queries'[NameOf(environment)] = 1
             /\ latest_platform_version' = latest_platform_version_cache'[NameOf(environment)]
      ]_vars

\* the second environment of the first application is on the platform of the
\* first, which was queried once in this invocation
C2_Witness ==
    /\ pc = "get_slack_token"
    /\ appIdx = 1
    /\ envIdx = 2
    /\ platform_name = P1
    /\ queries[P1] = 1
    /\ DOMAIN latest_platform_version_cache = {P1}

(* C3: in one invocation, whatever the inventory and whichever calls fail, at *)
(* most one list_platform_versions query is issued per platform name.         *)
C3_OneQueryPerName == \A n \in PlatformNames : queries[n] <= 1

\* both names were queried in an invocation in which calls failed
C3_Witness ==
    /\ pc = "idle"
    /\ queries[P1] = 1
    /\ queries[P2] = 1
    /\ {"lookup_error", "get_parameter"} \subseteq anomalies

(* C4: when describe_environments fails for some application and nothing     *)
(* else goes wrong, no exception leaves the handler and every other           *)
(* application is still listed, each of its environments looked up and each   *)
(* stale one notified.                                                        *)
C4_ListingFailureIsolated ==
    anomalies = {"describe_environments"} =>
        /\ NoException
        /\ ScannedAll
        /\ (pc = "idle" => owed = 0)

\* an invocation in which a listing failed has ended after posting for an
\* environment of another application
C4_Witness ==
    /\ pc = "idle"
    /\ anomalies = {"describe_environments"}
    /\ "chat_postMessage" \in called

(* C5: when the lookup of the latest version fails and returns nothing, the   *)
(* environment is skipped and the scan goes on: no exception ends the run.    *)
C5_AbsentLatestSkipped == "lookup_error" \in anomalies => NoException

(* C6: when the token cannot be read for a stale environment, no chat post is *)
(* made for it and the scan goes on with the next environment.                *)
C6_NoTokenNoPost ==
    [][(pc = "get_slack_token" /\ slack_token' = None) =>
          /\ postsThisEnv' = 0
          /\ owed' = owed
          /\ called' \ called \subseteq {"get_parameter"}
          /\ ScanContinues]_vars

\* the token failed for the first environment and the second is being scanned
C6_Witness ==
    /\ pc = "scan"
    /\ envIdx = 2
    /\ anomalies = {"get_parameter"}
    /\ owed = 1

(* C7: when the account alias is unavailable, the notification is still sent  *)
(* and the run does not fail.                                                 *)
C7_AliasBestEffort ==
    (anomalies \cap {"alias_error", "alias_empty"}) # {} =>
        /\ NoException
        /\ "chat_postMessage" \in called

(* C8: when the chat service rejects a message, the handler goes on: with     *)
(* nothing else going wrong every later environment and application is        *)
(* processed and no exception leaves the handler.                             *)
C8_RejectionIsolated ==
    /\ [](anomalies = {"chat_postMessage"} => (NoException /\ ScannedAll))
    /\ [][pc = "chat_postMessage" => ScanContinues]_vars

\* after a rejected post the second environment is being scanned
C8_Witness ==
    /\ pc = "scan"
    /\ envIdx = 2
    /\ anomalies = {"chat_postMessage"}

(* C9: when describe_applications fails the run ends at once and normally,    *)
(* with no other external call made.                                          *)
C9_ListingFailureEndsRun ==
    "describe_applications" \in anomalies =>
        /\ pc = "idle"
        /\ outcome = "returned"
        /\ called = {"describe_applications"}

\* a later invocation, the cache filled, in which describe_applications failed
C9_Witness ==
    /\ "describe_applications" \in anomalies
    /\ DOMAIN latest_platform_version_cache = PlatformNames

(* C10: when no external call fails, the invocation ends with as many chat    *)
(* posts as environments found stale, one post for each.                      *)
C10_OnePostPerStale ==
    (pc = "idle" /\ outcome # "none"
       /\ anomalies \cap {"describe_applications", "describe_environments", "lookup_error",
                          "get_parameter", "alias_error", "chat_postMessage"} = {}) =>
        /\ owed = 0
        /\ postsThisEnv <= 1

(* C11: every invocation starts with an empty latest-version cache: no value  *)
(* cached during one invocation is there when a later one starts.             *)
C11_FreshCachePerInvocation ==
    [][pc = "idle" => latest_platform_version_cache = <<>>]_vars

(* C12: a lookup that misses the cache and whose query fails, or returns no   *)
(* result or several, returns nothing and stores nothing.                     *)
C12_NoSingleResultNoEntry ==
    /\ ~ambiguous
    /\ "lookup_empty" \in anomalies => outcome # "IndexError"
    /\ "lookup_error" \in anomalies => latest_platform_version = None

(* C13: whatever the inventory and whichever recoverable failures occur, the  *)
(* invocation ends by returning normally: no exception reaches the caller.    *)
C13_ReturnsNormally == pc = "idle" => outcome \in {"none", "returned"}

(* C14: a version string that is no version affects its environment only: no *)
(* notification is sent for it, no exception ends the run, and the remaining  *)
(* environments are still scanned.                                            *)
C14_MalformedVersionIsolated ==
    /\ "bad_version" \in anomalies => (NoException /\ ScannedAll)
    /\ pc \in {"get_slack_token", "get_aws_account_alias", "chat_postMessage"} =>
          WellFormed(current_platform_version)

(* C15: the secret store, the identity service and the chat service are       *)
(* called only for an environment found stale; the alias is asked for only    *)
(* with a token in hand, and a post only follows a token read in the same     *)
(* iteration.                                                                 *)
C15_NotifyOnlyStale ==
    /\ [](pc \in {"get_slack_token", "get_aws_account_alias", "chat_postMessage"} =>
            /\ latest_platform_version # None
            /\ NumericallyGreater(latest_platform_version, VersionOf(environment)))
    /\ [](pc \in {"get_aws_account_alias", "chat_postMessage"} => slack_token = Token)
    /\ [][/\ \A s \in called' \ called :
                /\ s = "get_parameter" => pc = "get_slack_token"
                /\ s = "list_account_aliases" => pc = "get_aws_account_alias"
                /\ s = "chat_postMessage" => pc = "chat_postMessage"
          /\ pc' = "get_slack_token" => pc = "scan"
          /\ pc' = "get_aws_account_alias" =>
                (pc = "get_slack_token" /\ envIdx' = envIdx /\ appIdx' = appIdx)
          /\ pc' = "chat_postMessage" =>
                (pc = "get_aws_account_alias" /\ envIdx' = envIdx /\ appIdx' = appIdx)
         ]_vars

\* the first environment was stale and got its post, with nothing failing
C15_Witness ==
    /\ pc = "scan"
    /\ envIdx = 2
    /\ appIdx = 1
    /\ postsThisEnv = 1
    /\ anomalies = {}
    /\ {"get_parameter", "list_account_aliases", "chat_postMessage"} \subseteq called

(* C16: the cache never holds None: each entry is the version that a          *)
(* successful query for that very name returned first, and a failed query     *)
(* adds no entry.                                                             *)
C16_CacheHoldsQueryResults ==
    /\ DOMAIN latest_platform_version_cache = DOMAIN stored
    /\ \A n \in DOMAIN latest_platform_version_cache :
          /\ latest_platform_version_cache[n] # None
          /\ latest_platform_version_cache[n] = stored[n]

\* the query for Q failed in this invocation and only P, cached earlier, is held
C16_Witness ==
    /\ pc = "idle"
    /\ "lookup_error" \in anomalies
    /\ queries[P1] = 0
    /\ queries[P2] = 1
    /\ DOMAIN latest_platform_version_cache = {P1}
    /\ latest_platform_version_cache[P1] = V2_11

====
